---- MODULE Spec2Model ----
(***************************************************************************)
(* Model of src/main.py: reconciliation of the installed Steam games with  *)
(* the application list of Sunshine (apps.json).                           *)
(*                                                                         *)
(* Strings are sequences of tokens.  A token is one whitespace character   *)
(* (" "), one digit ("1", "2"), the marker "steam://rungameid/" in one of  *)
(* its letter cases, or a run of other characters.  A dict is a function   *)
(* whose domain is the set of keys that are present.                       *)
(***************************************************************************)
EXTENDS Integers, Sequences, FiniteSets, TLC

\* ---------------------------------------------------------------------
\* Bounds
\* ---------------------------------------------------------------------
MaxApps == 3

\* The longest list handed to dedupe_sunshine_apps on its own.
MaxDedupeApps == 4

\* The most app ids the library folders of the manifest list together.
MaxTasks == 3

\* ---------------------------------------------------------------------
\* Python values
\* ---------------------------------------------------------------------
\* None and "" are both falsy; the code reads dict values only through
\* truthiness tests and `or ""`, so both are the empty sequence here.
None == <<>>

Truthy(v) == v # <<>>

\* dict.get(key) / dict.get(key, default)
Get(d, key) == IF key \in DOMAIN d THEN d[key] ELSE None

GetDefault(d, key, default) == IF key \in DOMAIN d THEN d[key] ELSE default

Whitespace == {" "}

Digits == {"0", "1", "2"}

RECURSIVE LStrip(_)
LStrip(s) == IF s # <<>> /\ Head(s) \in Whitespace THEN LStrip(Tail(s)) ELSE s

RECURSIVE RStrip(_)
RStrip(s) ==
    IF s # <<>> /\ s[Len(s)] \in Whitespace THEN RStrip(SubSeq(s, 1, Len(s) - 1)) ELSE s

\* str.strip()
Strip(s) == RStrip(LStrip(s))

\* ---------------------------------------------------------------------
\* Steam AppID extraction
\* ---------------------------------------------------------------------
\* The spellings of "steam://rungameid/" that occur in the model; the
\* pattern is compiled with re.IGNORECASE, so all of them match.
MarkerLower == "steam://rungameid/"

MarkerUpper == "STEAM://RUNGAMEID/"

_STEAM_RUNGAME_RE(tok) == tok \in {MarkerLower, MarkerUpper}

\* The maximal run of digits of s that starts at position i: (\d+) is greedy.
RECURSIVE DigitRun(_, _)
DigitRun(s, i) ==
    IF i <= Len(s) /\ s[i] \in Digits THEN <<s[i]>> \o DigitRun(s, i + 1) ELSE <<>>

\* re.search: the leftmost position where the marker is followed by a digit.
extract_steam_app_id(cmd) ==
    IF ~Truthy(cmd) THEN None
    ELSE LET hits == {i \in 1..(Len(cmd) - 1) :
                         _STEAM_RUNGAME_RE(cmd[i]) /\ cmd[i + 1] \in Digits}
         IN IF hits = {} THEN None
            ELSE LET m == CHOOSE i \in hits : \A j \in hits : i <= j
                 IN DigitRun(cmd, m + 1)

\* ---------------------------------------------------------------------
\* Scoring and deduplication
\* ---------------------------------------------------------------------
_score_app_for_keep_flat(app) ==
    (IF Truthy(Get(app, "image-path")) THEN 3 ELSE 0)
    + (IF Truthy(Get(app, "name")) THEN 3 ELSE 0)

_score_app_for_keep(app) ==
    (IF Truthy(Get(app, "image-path")) THEN 10 ELSE 0)
    + (IF Truthy(Get(app, "name")) THEN 3 ELSE 0)

\* The locals of dedupe_sunshine_apps before the loop.
DedupeInit ==
    [deduped |-> <<>>, removed |-> <<>>, steam_index |-> {}, other_seen |-> {}]

\* One iteration of the loop of dedupe_sunshine_apps.  steam_index is a dict
\* from AppID to a position of deduped; it is kept here as the set of its
\* items, <<AppID, position>>.
DedupeStep_forget(st, app) ==
    LET cmd == Strip(Get(app, "cmd"))
        name == Strip(Get(app, "name"))
        steam_id == extract_steam_app_id(cmd)
        seen == {p[1] : p \in st.steam_index}
    IN IF Truthy(steam_id)
       THEN IF steam_id \notin seen
            THEN [st EXCEPT !.steam_index = @ \cup {<<steam_id, Len(st.deduped) + 1>>},
                            !.deduped = Append(@, app)]
            ELSE LET i == (CHOOSE p \in st.steam_index : p[1] = steam_id)[2]
                     current == st.deduped[i]
                 IN IF _score_app_for_keep(app) > _score_app_for_keep(current)
                    THEN [st EXCEPT !.removed = Append(@, current),
                                    !.deduped[i] = app]
                    ELSE [st EXCEPT !.removed = Append(@, app)]
       ELSE LET key == <<name, cmd>>
            IN IF key \in st.other_seen
               THEN [st EXCEPT !.removed = Append(@, app)]
               ELSE [st EXCEPT !.deduped = Append(@, app)]

DedupeStep_append(st, app) ==
    LET cmd == Strip(Get(app, "cmd"))
        name == Strip(Get(app, "name"))
        steam_id == extract_steam_app_id(cmd)
        seen == {p[1] : p \in st.steam_index}
    IN IF Truthy(steam_id)
       THEN IF steam_id \notin seen
            THEN [st EXCEPT !.steam_index = @ \cup {<<steam_id, Len(st.deduped) + 1>>},
                            !.deduped = Append(@, app)]
            ELSE LET i == (CHOOSE p \in st.steam_index : p[1] = steam_id)[2]
                     current == st.deduped[i]
                 IN IF _score_app_for_keep(app) > _score_app_for_keep(current)
                    THEN [st EXCEPT !.removed = Append(@, current),
                                    !.deduped = Append(@, app)]
                    ELSE [st EXCEPT !.removed = Append(@, app)]
       ELSE LET key == <<name, cmd>>
            IN IF key \in st.other_seen
               THEN [st EXCEPT !.removed = Append(@, app)]
               ELSE [st EXCEPT !.other_seen = @ \cup {key},
                               !.deduped = Append(@, app)]

DedupeStep_ge(st, app) ==
    LET cmd == Strip(Get(app, "cmd"))
        name == Strip(Get(app, "name"))
        steam_id == extract_steam_app_id(cmd)
        seen == {p[1] : p \in st.steam_index}
    IN IF Truthy(steam_id)
       THEN IF steam_id \notin seen
            THEN [st EXCEPT !.steam_index = @ \cup {<<steam_id, Len(st.deduped) + 1>>},
                            !.deduped = Append(@, app)]
            ELSE LET i == (CHOOSE p \in st.steam_index : p[1] = steam_id)[2]
                     current == st.deduped[i]
                 IN IF _score_app_for_keep(app) >= _score_app_for_keep(current)
                    THEN [st EXCEPT !.removed = Append(@, current),
                                    !.deduped[i] = app]
                    ELSE [st EXCEPT !.removed = Append(@, app)]
       ELSE LET key == <<name, cmd>>
            IN IF key \in st.other_seen
               THEN [st EXCEPT !.removed = Append(@, app)]
               ELSE [st EXCEPT !.other_seen = @ \cup {key},
                               !.deduped = Append(@, app)]

DedupeStep_lose(st, app) ==
    LET cmd == Strip(Get(app, "cmd"))
        name == Strip(Get(app, "name"))
        steam_id == extract_steam_app_id(cmd)
        seen == {p[1] : p \in st.steam_index}
    IN IF Truthy(steam_id)
       THEN IF steam_id \notin seen
            THEN [st EXCEPT !.steam_index = @ \cup {<<steam_id, Len(st.deduped) + 1>>},
                            !.deduped = Append(@, app)]
            ELSE LET i == (CHOOSE p \in st.steam_index : p[1] = steam_id)[2]
                     current == st.deduped[i]
                 IN IF _score_app_for_keep(app) > _score_app_for_keep(current)
                    THEN [st EXCEPT !.deduped[i] = app]
                    ELSE [st EXCEPT !.removed = Append(@, app)]
       ELSE LET key == <<name, cmd>>
            IN IF key \in st.other_seen
               THEN [st EXCEPT !.removed = Append(@, app)]
               ELSE [st EXCEPT !.other_seen = @ \cup {key},
                               !.deduped = Append(@, app)]

DedupeStep(st, app) ==
    LET cmd == Strip(Get(app, "cmd"))
        name == Strip(Get(app, "name"))
        steam_id == extract_steam_app_id(cmd)
        seen == {p[1] : p \in st.steam_index}
    IN IF Truthy(steam_id)
       THEN IF steam_id \notin seen
            THEN [st EXCEPT !.steam_index = @ \cup {<<steam_id, Len(st.deduped) + 1>>},
                            !.deduped = Append(@, app)]
            ELSE LET i == (CHOOSE p \in st.steam_index : p[1] = steam_id)[2]
                     current == st.deduped[i]
                 IN IF _score_app_for_keep(app) > _score_app_for_keep(current)
                    THEN [st EXCEPT !.removed = Append(@, current),
                                    !.deduped[i] = app]
                    ELSE [st EXCEPT !.removed = Append(@, app)]
       ELSE LET key == <<name, cmd>>
            IN IF key \in st.other_seen
               THEN [st EXCEPT !.removed = Append(@, app)]
               ELSE [st EXCEPT !.other_seen = @ \cup {key},
                               !.deduped = Append(@, app)]

RECURSIVE DedupeLoop(_, _)
DedupeLoop(apps, st) ==
    IF apps = <<>> THEN st ELSE DedupeLoop(Tail(apps), DedupeStep(st, Head(apps)))

\* Returns <<deduped, removed>>.
dedupe_sunshine_apps(apps) ==
    LET st == DedupeLoop(apps, DedupeInit) IN <<st.deduped, st.removed>>

\* ---------------------------------------------------------------------
\* Removal of the entries of uninstalled games
\* ---------------------------------------------------------------------
\* The locals of process_existing_apps before the loop; grid_paths collects
\* the image paths the loop hands to os.path.exists / os.remove.
ProcessInit ==
    [updated_apps |-> <<>>, removed_games |-> <<>>, existing_steam_apps |-> {},
     grid_paths |-> {}]

\* One iteration of the loop of process_existing_apps; installed is the set
\* of keys of installed_games.
ProcessStep_keep(st, app, installed) ==
    LET cmd == Get(app, "cmd")
        app_id == extract_steam_app_id(cmd)
    IN IF Truthy(app_id)
       THEN IF app_id \in installed
            THEN [st EXCEPT !.updated_apps = Append(@, app),
                            !.existing_steam_apps = @ \cup {app_id}]
            ELSE LET grid_path == Get(app, "image-path")
                 IN [st EXCEPT
                       !.updated_apps = Append(@, app),
                       !.removed_games =
                           Append(@, <<GetDefault(app, "name", <<"Unknown">>), app_id>>),
                       !.grid_paths =
                           IF Truthy(grid_path) THEN @ \cup {grid_path} ELSE @]
       ELSE [st EXCEPT !.updated_apps = Append(@, app)]

ProcessStep(st, app, installed) ==
    LET cmd == Get(app, "cmd")
        app_id == extract_steam_app_id(cmd)
    IN IF Truthy(app_id)
       THEN IF app_id \in installed
            THEN [st EXCEPT !.updated_apps = Append(@, app),
                            !.existing_steam_apps = @ \cup {app_id}]
            ELSE LET grid_path == Get(app, "image-path")
                 IN [st EXCEPT
                       !.removed_games =
                           Append(@, <<GetDefault(app, "name", <<"Unknown">>), app_id>>),
                       !.grid_paths =
                           IF Truthy(grid_path) THEN @ \cup {grid_path} ELSE @]
       ELSE [st EXCEPT !.updated_apps = Append(@, app)]

RECURSIVE ProcessLoop(_, _, _)
ProcessLoop(apps, st, installed) ==
    IF apps = <<>> THEN st
    ELSE ProcessLoop(Tail(apps), ProcessStep(st, Head(apps), installed), installed)

process_existing_apps(apps, installed) == ProcessLoop(apps, ProcessInit, installed)

\* ---------------------------------------------------------------------
\* New entries
\* ---------------------------------------------------------------------
\* os.path.join(grids_folder, f"{app_id}.png")
GridPath(app_id) == <<"grids/">> \o app_id \o <<".png">>

\* build_cmd of add_new_games.  how is "nt" on Windows, "flatpak" when the
\* Flatpak Steam is listed, "steam" otherwise.
build_cmd(app_id, how) ==
    CASE how = "nt" -> <<MarkerLower>> \o app_id
      [] how = "flatpak" ->
            <<"flatpak run com.valvesoftware.Steam", " ", MarkerLower>> \o app_id
      [] OTHER -> <<"steam", " ", MarkerLower>> \o app_id

\* The dict appended to new_apps; grid_path is the result of the fetch.
NewApp(app_id, game_name, how, grid_path) ==
    ("name" :> game_name) @@ ("cmd" :> build_cmd(app_id, how))
    @@ ("output" :> <<>>) @@ ("detached" :> <<>>)
    @@ ("elevated" :> <<"false">>) @@ ("hidden" :> <<"true">>)
    @@ ("wait-all" :> <<"true">>) @@ ("exit-timeout" :> <<"5">>)
    @@ ("image-path" :> IF Truthy(grid_path) THEN grid_path ELSE <<>>)

\* ---------------------------------------------------------------------
\* The world of one run
\* ---------------------------------------------------------------------
\* The AppIDs of the library manifest and the names the store returns.
AppIds == {<<"1">>, <<"2">>}

GameName(app_id) == <<"Game">> \o app_id

\* The entries apps.json is built of at the start of a run.
EntryUniverse ==
    { \* Steam entries of AppID 1, scores 13, 3, 10 and 0
      ("name" :> <<"A">>) @@ ("cmd" :> <<MarkerLower, "1">>)
          @@ ("image-path" :> <<"x.png">>),
      ("name" :> <<"A">>) @@ ("cmd" :> <<MarkerLower, "1">>)
          @@ ("image-path" :> <<>>),
      ("cmd" :> <<"steam", " ", MarkerLower, "1">>)
          @@ ("image-path" :> <<"x.png">>),
      ("name" :> <<>>) @@ ("cmd" :> <<MarkerLower, "1">>),
      \* a Steam entry of AppID 2, upper-case scheme
      ("name" :> <<"B">>)
          @@ ("cmd" :> <<"flatpak run com.valvesoftware.Steam", " ", MarkerUpper, "2">>),
      \* entries that are not Steam entries; the first two differ only in
      \* surrounding whitespace
      ("name" :> <<"Foo">>) @@ ("cmd" :> <<"foo.sh">>),
      ("name" :> <<" ", "Foo">>) @@ ("cmd" :> <<"foo.sh", " ">>)
          @@ ("image-path" :> <<"x.png">>),
      ("name" :> <<"Foo">>) @@ ("cmd" :> <<MarkerLower, "x">>) }

AppLists == UNION {[1..n -> EntryUniverse] : n \in 0..MaxApps}

\* The image files the entries of EntryUniverse point to.
InitialGridFiles == {<<"x.png">>}

Absent == [state |-> "absent", apps |-> <<>>]

Complete(apps) == [state |-> "complete", apps |-> apps]

Partial == [state |-> "partial", apps |-> <<>>]

VARIABLES
    pc,                  \* the position of main
    exit_status,         \* the exit status of the process once pc = "exited"
    dry_run,             \* args.dry_run
    no_restart,          \* args.no_restart
    os_name,             \* os.name
    apps_file,           \* the file at SUNSHINE_APPS_JSON_PATH
    backup_file,         \* the file at SUNSHINE_APPS_JSON_PATH + ".backup"
    grid_files,          \* the image files that exist
    steam_restarted,     \* restart_steam has relaunched Steam
    sunshine_restarted,  \* restart_sunshine has relaunched Sunshine
    manifest,            \* the app ids the library folders of the manifest list
    installed_games,     \* main: installed_games, a dict AppID -> name
    remove_failed,       \* the image files whose os.remove raised
    sunshine_apps,       \* main: sunshine_config["apps"]
    removed_dupes,       \* main: removed_dupes
    updated_apps,        \* main: updated_apps
    removed_games,       \* main: removed_games
    existing_steam_apps, \* main: existing_steam_apps
    new_games,           \* main: new_games
    pending,             \* add_new_games: the futures that have not completed
    new_apps,            \* add_new_games: new_apps
    removed_after,       \* main: removed_after
    saves,               \* the number of times apps.json was opened for writing
    fetches              \* the AppIDs whose image fetch was submitted

\* One call of dedupe_sunshine_apps on its own.
VARIABLES
    d_pc,                \* "idle", "call" before the call, "returned" after it
    d_apps,              \* dedupe_sunshine_apps: apps
    d_deduped,           \* dedupe_sunshine_apps: deduped, as returned
    d_removed            \* dedupe_sunshine_apps: removed, as returned

dedupe_vars == <<d_pc, d_apps, d_deduped, d_removed>>

\* One call of get_game_name or of fetch_grid_from_steamgriddb on its own.
VARIABLES
    r_pc,                \* "idle", "request", "after_attempt" or "returned"
    r_fn,                \* the function that is called
    r_json_error,        \* what resp.json() raises on a body that is not JSON
    r_attempt,           \* attempt, the variable of the for loop
    r_log,               \* the attempts made and the waits, <<what, number>>
    r_result             \* "None" or "value" once the call has returned

retry_vars == <<r_pc, r_fn, r_json_error, r_attempt, r_log, r_result>>

\* One call of load_installed_games on its own, from the submission of the
\* lookups on.
VARIABLES
    l_pc,                \* "idle", "submit", "collect" or "returned"
    l_manifest,          \* the app ids of the library folders, in their order
    l_submitted,         \* how many of them executor.submit has taken
    l_state,             \* per lookup: "new", "queued", "running", or how
                         \* it ended: "name", "none", "raise"
    l_cache,             \* the results lru_cache holds for get_game_name
    l_order,             \* the lookups as_completed has handed out so far
    l_installed          \* load_installed_games: installed_games

lookup_vars ==
    <<l_pc, l_manifest, l_submitted, l_state, l_cache, l_order, l_installed>>

main_vars ==
    <<pc, exit_status, dry_run, no_restart, os_name, apps_file, backup_file,
      grid_files, steam_restarted, sunshine_restarted, manifest,
      installed_games, remove_failed, sunshine_apps, removed_dupes,
      updated_apps, removed_games, existing_steam_apps, new_games, pending,
      new_apps, removed_after, saves, fetches>>

\* What a run of main leaves alone.
others == <<dedupe_vars, retry_vars, lookup_vars>>

vars == <<main_vars, others>>

\* No call of dedupe_sunshine_apps on its own is under way.
DedupeIdle ==
    /\ d_pc = "idle"
    /\ d_apps = <<>>
    /\ d_deduped = <<>>
    /\ d_removed = <<>>

\* No call of get_game_name or fetch_grid_from_steamgriddb on its own is
\* under way.
RetryIdle ==
    /\ r_pc = "idle"
    /\ r_fn = "none"
    /\ r_json_error = "none"
    /\ r_attempt = 0
    /\ r_log = <<>>
    /\ r_result = "none"

\* No call of load_installed_games on its own is under way.
LookupIdle ==
    /\ l_pc = "idle"
    /\ l_manifest = <<>>
    /\ l_submitted = 0
    /\ l_state = <<>>
    /\ l_cache = <<>>
    /\ l_order = <<>>
    /\ l_installed = <<>>

files == <<apps_file, backup_file, grid_files>>

args == <<dry_run, no_restart, os_name>>

locals ==
    <<manifest, installed_games, remove_failed, sunshine_apps, removed_dupes,
      updated_apps, removed_games, existing_steam_apps, new_games, pending,
      new_apps, removed_after>>

Init ==
    /\ pc = "validate_config"
    /\ exit_status = 0
    /\ dry_run \in BOOLEAN
    /\ no_restart \in BOOLEAN
    /\ os_name \in {"nt", "posix"}
    /\ apps_file \in {Absent} \cup {Complete(apps) : apps \in AppLists}
    /\ backup_file = Absent
    /\ grid_files \in SUBSET InitialGridFiles
    /\ steam_restarted = FALSE
    /\ sunshine_restarted = FALSE
    /\ manifest = {}
    /\ installed_games = <<>>
    /\ remove_failed = {}
    /\ sunshine_apps = <<>>
    /\ removed_dupes = <<>>
    /\ updated_apps = <<>>
    /\ removed_games = <<>>
    /\ existing_steam_apps = {}
    /\ new_games = {}
    /\ pending = {}
    /\ new_apps = <<>>
    /\ removed_after = <<>>
    /\ saves = 0
    /\ fetches = {}
    /\ DedupeIdle
    /\ RetryIdle
    /\ LookupIdle

\* sys.exit(status), or the return of main (status 0)
Exit(status) ==
    /\ pc' = "exited"
    /\ exit_status' = status

\* ---------------------------------------------------------------------
\* main, step by step
\* ---------------------------------------------------------------------
\* validate_config returns the configuration, or logs and calls sys.exit(1).
ValidateConfig ==
    /\ pc = "validate_config"
    /\ \/ pc' = "restart_steam" /\ UNCHANGED exit_status
       \/ Exit(1)
    /\ UNCHANGED <<args, files, steam_restarted, sunshine_restarted, locals,
                   saves, fetches>>
    /\ UNCHANGED others

\* The outcomes of restart_steam and restart_sunshine: a warning and no
\* restart off Windows or without a usable executable path; errors are logged.
RestartOutcomes == IF os_name = "nt" THEN BOOLEAN ELSE {FALSE}

RestartSteam ==
    /\ pc = "restart_steam"
    /\ IF no_restart
       THEN UNCHANGED steam_restarted
       ELSE \E done \in RestartOutcomes : steam_restarted' = done
    /\ pc' = "load_installed_games"
    /\ UNCHANGED <<exit_status, args, files, sunshine_restarted, locals, saves,
                   fetches>>
    /\ UNCHANGED others

\* load_installed_games: of the app ids the manifest lists, those whose name
\* lookup gave a name; an unreadable manifest raises.
LoadInstalledGames ==
    /\ pc = "load_installed_games"
    /\ \/ /\ \E listed \in SUBSET AppIds :
                /\ manifest' = listed
                /\ \E found \in SUBSET listed :
                      installed_games' = [app_id \in found |-> GameName(app_id)]
          /\ pc' = "get_sunshine_config"
          /\ UNCHANGED exit_status
       \/ /\ Exit(1)
          /\ UNCHANGED <<manifest, installed_games>>
    /\ UNCHANGED <<args, files, steam_restarted, sunshine_restarted,
                   remove_failed, sunshine_apps, removed_dupes, updated_apps,
                   removed_games, existing_steam_apps, new_games, pending,
                   new_apps, removed_after, saves, fetches>>
    /\ UNCHANGED others

\* get_sunshine_config: the apps of the file, no apps when there is no file;
\* a file that cannot be read or parsed raises.
GetSunshineConfig ==
    /\ pc = "get_sunshine_config"
    /\ \/ /\ apps_file.state # "partial"
          /\ sunshine_apps' = apps_file.apps
          /\ pc' = "dedupe"
          /\ UNCHANGED exit_status
       \/ /\ apps_file.state # "absent"
          /\ Exit(1)
          /\ UNCHANGED sunshine_apps
    /\ UNCHANGED <<args, files, steam_restarted, sunshine_restarted, manifest,
                   installed_games, remove_failed, removed_dupes, updated_apps,
                   removed_games, existing_steam_apps, new_games, pending,
                   new_apps, removed_after, saves, fetches>>
    /\ UNCHANGED others

\* main, step 1: the first dedupe, then os.makedirs of the grids folder.
DedupeExisting ==
    /\ pc = "dedupe"
    /\ LET r == dedupe_sunshine_apps(sunshine_apps)
       IN /\ sunshine_apps' = r[1]
          /\ removed_dupes' = r[2]
    /\ pc' = "process_existing_apps"
    /\ UNCHANGED <<exit_status, args, files, steam_restarted,
                   sunshine_restarted, manifest, installed_games,
                   remove_failed, updated_apps, removed_games,
                   existing_steam_apps, new_games, pending, new_apps,
                   removed_after, saves, fetches>>
    /\ UNCHANGED others

\* main, step 3: new_games = set(installed_games.keys()) - existing_steam_apps
ComputeNewGames_all(installed, existing) == installed

ComputeNewGames(installed, existing) == installed \ existing

changes_needed_always(dupes, games, added) == TRUE

changes_needed(dupes, games, added) == dupes # <<>> \/ games # <<>> \/ added # {}

\* main returns before step 4 when nothing has to change, and in a dry run.
ReturnsEarly_nodry(changes, dry) == ~changes

ReturnsEarly(changes, dry) == ~changes \/ dry

\* main, steps 2 and 3, and the two early returns.  process_existing_apps
\* removes the image of every dropped entry that exists; a removal that fails
\* is logged.
ProcessExisting ==
    /\ pc = "process_existing_apps"
    /\ LET r == process_existing_apps(sunshine_apps, DOMAIN installed_games)
           found == r.grid_paths \cap grid_files
           added == ComputeNewGames(DOMAIN installed_games, r.existing_steam_apps)
           changes == changes_needed(removed_dupes, r.removed_games, added)
       IN /\ updated_apps' = r.updated_apps
          /\ removed_games' = r.removed_games
          /\ existing_steam_apps' = r.existing_steam_apps
          /\ \E failed \in SUBSET found :
                /\ grid_files' = grid_files \ (found \ failed)
                /\ remove_failed' = failed
          /\ new_games' = added
          /\ IF ReturnsEarly(changes, dry_run) THEN Exit(0)
             ELSE pc' = "add_new_games" /\ UNCHANGED exit_status
    /\ UNCHANGED <<args, apps_file, backup_file, steam_restarted,
                   sunshine_restarted, manifest, installed_games,
                   sunshine_apps, removed_dupes, pending, new_apps,
                   removed_after, saves, fetches>>
    /\ UNCHANGED others

\* add_new_games up to the submission of one fetch per new game; without
\* new games it returns at once.
AddNewGames_nowait ==
    /\ pc = "add_new_games"
    /\ pending' = new_games
    /\ fetches' = new_games
    /\ new_apps' = <<>>
    /\ pc' = "save"
    /\ UNCHANGED <<exit_status, args, files, steam_restarted,
                   sunshine_restarted, manifest, installed_games,
                   remove_failed, sunshine_apps, removed_dupes, updated_apps,
                   removed_games, existing_steam_apps, new_games,
                   removed_after, saves>>
    /\ UNCHANGED others

AddNewGames ==
    /\ pc = "add_new_games"
    /\ pending' = new_games
    /\ fetches' = new_games
    /\ new_apps' = <<>>
    /\ pc' = IF new_games = {} THEN "save" ELSE "as_completed"
    /\ UNCHANGED <<exit_status, args, files, steam_restarted,
                   sunshine_restarted, manifest, installed_games,
                   remove_failed, sunshine_apps, removed_dupes, updated_apps,
                   removed_games, existing_steam_apps, new_games,
                   removed_after, saves>>
    /\ UNCHANGED others

\* What build_cmd does: on Windows it returns; elsewhere it runs flatpak,
\* whose FileNotFoundError it catches, while any other error of
\* subprocess.run leaves it as an exception.
BuildOutcomes == IF os_name = "nt" THEN {"nt"} ELSE {"flatpak", "steam", "raise"}

\* fetch_grid_from_steamgriddb returns the path of the image it saved, or None.
FetchOutcomes == {"path", "none"}

\* One round of the as_completed loop of add_new_games: a future has
\* completed, its entry is built and appended; an exception in the round is
\* logged and the round appends nothing.  After the last round
\* add_new_games returns.
TaskCompleted(app_id) ==
    /\ pc = "as_completed"
    /\ app_id \in pending
    /\ \E fetched \in FetchOutcomes, how \in BuildOutcomes :
          LET grid_path == IF fetched = "path" THEN GridPath(app_id) ELSE None
          IN /\ grid_files' =
                    IF fetched = "path" THEN grid_files \cup {grid_path} ELSE grid_files
             /\ new_apps' =
                    IF how = "raise" THEN new_apps
                    ELSE Append(new_apps,
                                NewApp(app_id, installed_games[app_id], how, grid_path))
    /\ pending' = pending \ {app_id}
    /\ pc' = IF pending' = {} THEN "save" ELSE "as_completed"
    /\ UNCHANGED <<exit_status, args, apps_file, backup_file, steam_restarted,
                   sunshine_restarted, manifest, installed_games,
                   remove_failed, sunshine_apps, removed_dupes, updated_apps,
                   removed_games, existing_steam_apps, new_games,
                   removed_after, saves, fetches>>
    /\ UNCHANGED others

\* save_sunshine_config: copy the file to the backup if it exists, open it
\* for writing (which empties it) and dump the config.  how names the call
\* that fails, if any.
SaveOutcomes == {"ok", "copy_fails", "open_fails", "dump_fails"}

save_sunshine_config(apps, how) ==
    /\ how = "copy_fails" => apps_file.state # "absent"
    /\ backup_file' =
           IF apps_file.state = "absent" THEN backup_file
           ELSE IF how = "copy_fails" THEN Partial
           ELSE apps_file
    /\ apps_file' =
           CASE how = "ok" -> Complete(apps)
             [] how = "dump_fails" -> Partial
             [] OTHER -> apps_file
    /\ saves' = IF how \in {"ok", "dump_fails"} THEN saves + 1 ELSE saves

\* save_sunshine_config logs the exception of a failed call and raises it
\* again.
SaveRaises_swallowed(how) == FALSE

SaveRaises(how) == how # "ok"

\* main, step 5: extend, the second dedupe and the save; an exception of the
\* save reaches the handler of main, which exits with status 1.
DedupeAndSave ==
    /\ pc = "save"
    /\ LET r == dedupe_sunshine_apps(updated_apps \o new_apps)
       IN /\ updated_apps' = r[1]
          /\ removed_after' = r[2]
          /\ sunshine_apps' = r[1]
          /\ \E how \in SaveOutcomes :
                /\ save_sunshine_config(r[1], how)
                /\ IF SaveRaises(how)
                   THEN Exit(1)
                   ELSE pc' = "restart_sunshine" /\ UNCHANGED exit_status
    /\ UNCHANGED <<args, grid_files, steam_restarted, sunshine_restarted,
                   manifest, installed_games, remove_failed, removed_dupes,
                   removed_games, existing_steam_apps, new_games, pending,
                   new_apps, fetches>>
    /\ UNCHANGED others

\* The end of main: restart Sunshine unless --no-restart, and return.
RestartSunshine ==
    /\ pc = "restart_sunshine"
    /\ IF no_restart
       THEN UNCHANGED sunshine_restarted
       ELSE \E done \in RestartOutcomes : sunshine_restarted' = done
    /\ Exit(0)
    /\ UNCHANGED <<args, files, steam_restarted, locals, saves, fetches>>
    /\ UNCHANGED others

\* KeyboardInterrupt: main logs it and exits with status 1.
Interrupt ==
    /\ pc # "exited"
    /\ Exit(1)
    /\ UNCHANGED <<args, files, steam_restarted, sunshine_restarted, locals,
                   saves, fetches>>
    /\ UNCHANGED others

Next ==
    \/ ValidateConfig
    \/ RestartSteam
    \/ LoadInstalledGames
    \/ GetSunshineConfig
    \/ DedupeExisting
    \/ ProcessExisting
    \/ AddNewGames
    \/ \E app_id \in AppIds : TaskCompleted(app_id)
    \/ DedupeAndSave
    \/ RestartSunshine
    \/ Interrupt

Spec == Init /\ [][Next]_vars

\* ---------------------------------------------------------------------
\* dedupe_sunshine_apps on its own
\* ---------------------------------------------------------------------
\* The entries of the lists: Steam entries of AppID 1 with scores 13, 10,
\* 3, 3 and 0, a Steam entry of AppID 2, and two other entries with one key.
DedupeUniverse ==
    { ("name" :> <<"A">>) @@ ("cmd" :> <<MarkerLower, "1">>)
          @@ ("image-path" :> <<"x.png">>),
      ("cmd" :> <<MarkerLower, "1">>) @@ ("image-path" :> <<"y.png">>),
      ("name" :> <<"A">>) @@ ("cmd" :> <<MarkerLower, "1">>)
          @@ ("image-path" :> <<>>),
      ("name" :> <<"C">>) @@ ("cmd" :> <<"steam", " ", MarkerUpper, "1">>),
      ("name" :> <<>>) @@ ("cmd" :> <<MarkerLower, "1">>),
      ("name" :> <<"B">>) @@ ("cmd" :> <<MarkerLower, "2">>),
      ("name" :> <<"Foo">>) @@ ("cmd" :> <<"foo.sh">>),
      ("name" :> <<"Foo", " ">>) @@ ("cmd" :> <<" ", "foo.sh">>) }

DedupeLists == UNION {[1..n -> DedupeUniverse] : n \in 0..MaxDedupeApps}

\* No run of main is under way.
MainIdle ==
    /\ pc = "idle"
    /\ exit_status = 0
    /\ dry_run = FALSE
    /\ no_restart = FALSE
    /\ os_name = "posix"
    /\ apps_file = Absent
    /\ backup_file = Absent
    /\ grid_files = {}
    /\ steam_restarted = FALSE
    /\ sunshine_restarted = FALSE
    /\ manifest = {}
    /\ installed_games = <<>>
    /\ remove_failed = {}
    /\ sunshine_apps = <<>>
    /\ removed_dupes = <<>>
    /\ updated_apps = <<>>
    /\ removed_games = <<>>
    /\ existing_steam_apps = {}
    /\ new_games = {}
    /\ pending = {}
    /\ new_apps = <<>>
    /\ removed_after = <<>>
    /\ saves = 0
    /\ fetches = {}

InitDedupe ==
    /\ MainIdle
    /\ RetryIdle
    /\ LookupIdle
    /\ d_pc = "call"
    /\ d_apps \in DedupeLists
    /\ d_deduped = <<>>
    /\ d_removed = <<>>

\* deduped, removed = dedupe_sunshine_apps(apps)
CallDedupe ==
    /\ d_pc = "call"
    /\ LET r == dedupe_sunshine_apps(d_apps)
       IN /\ d_deduped' = r[1]
          /\ d_removed' = r[2]
    /\ d_pc' = "returned"
    /\ UNCHANGED <<d_apps, main_vars, retry_vars, lookup_vars>>

NextDedupe == CallDedupe

SpecDedupe == InitDedupe /\ [][NextDedupe]_vars

\* ---------------------------------------------------------------------
\* get_game_name and fetch_grid_from_steamgriddb on their own
\* ---------------------------------------------------------------------
\* for attempt in range(3)
Attempts == 3

RECURSIVE Pow2(_)
Pow2(n) == IF n = 0 THEN 1 ELSE 2 * Pow2(n - 1)

\* What the body of the try can come to in one attempt.  get_game_name:
\* the request times out, fails otherwise (connection, HTTP status), the
\* body is not JSON, the data are not of the expected shape, there is no
\* name, there is a name.  fetch_grid_from_steamgriddb: the same for the
\* request of the grid list, then the request of the image times out or
\* fails, the image does not verify or cannot be saved, the image is saved.
TryOutcomes(fn) ==
    IF fn = "get_game_name"
    THEN {"timeout", "request_error", "bad_json", "unexpected", "no_data", "value"}
    ELSE {"timeout", "request_error", "bad_json", "unexpected", "no_data",
          "image_timeout", "image_request_error", "bad_image", "value"}

\* The exception classes the build can give resp.json() on a body that is
\* not JSON: requests.exceptions.JSONDecodeError, a RequestException, since
\* requests 2.27; a plain ValueError before.
JsonErrorClasses == {"RequestException", "ValueError"}

\* The except clause an outcome ends in: "retry" for the clauses of Timeout
\* and RequestException, which fall through to the end of the loop body,
\* "None" for a return None, "value" for the return of the name or path.
Handler(outcome, json_error) ==
    CASE outcome \in {"timeout", "request_error", "image_timeout",
                      "image_request_error"} -> "retry"
      [] outcome = "bad_json" ->
            IF json_error = "RequestException" THEN "retry" ELSE "None"
      [] outcome = "value" -> "value"
      [] OTHER -> "None"

\* if attempt < 2: time.sleep(2 ** attempt)
SleepsAfter_always(attempt) == TRUE

SleepsAfter(attempt) == attempt < 2

InitRetry ==
    /\ MainIdle
    /\ DedupeIdle
    /\ LookupIdle
    /\ r_pc = "request"
    /\ r_fn \in {"get_game_name", "fetch_grid_from_steamgriddb"}
    /\ r_json_error \in JsonErrorClasses
    /\ r_attempt = 0
    /\ r_log = <<>>
    /\ r_result = "none"

\* The try of one attempt and its except clauses.
Request ==
    /\ r_pc = "request"
    /\ \E outcome \in TryOutcomes(r_fn) :
          LET handler == Handler(outcome, r_json_error)
          IN  /\ r_log' = Append(r_log, <<outcome, r_attempt + 1>>)
              /\ IF handler = "retry"
                 THEN r_pc' = "after_attempt" /\ UNCHANGED r_result
                 ELSE r_pc' = "returned" /\ r_result' = handler
    /\ UNCHANGED <<r_fn, r_json_error, r_attempt, main_vars, dedupe_vars,
                   lookup_vars>>

\* The end of the loop body after an attempt that fell through: the wait,
\* then the next attempt, or after the last one the return of None.
EndAttempt ==
    /\ r_pc = "after_attempt"
    /\ r_log' = IF SleepsAfter(r_attempt)
                THEN Append(r_log, <<"sleep", Pow2(r_attempt)>>)
                ELSE r_log
    /\ IF r_attempt + 1 < Attempts
       THEN /\ r_attempt' = r_attempt + 1
            /\ r_pc' = "request"
            /\ UNCHANGED r_result
       ELSE /\ r_pc' = "returned"
            /\ r_result' = "None"
            /\ UNCHANGED r_attempt
    /\ UNCHANGED <<r_fn, r_json_error, main_vars, dedupe_vars, lookup_vars>>

NextRetry ==
    \/ Request
    \/ EndAttempt

SpecRetry == InitRetry /\ [][NextRetry]_vars

\* ---------------------------------------------------------------------
\* load_installed_games on its own: the pool of name lookups
\* ---------------------------------------------------------------------
\* The app ids of the library folders, folder after folder.  An app id is
\* a key of its folder, so it comes once per folder; two folders can list
\* the same app id.
Manifests == UNION {[1..n -> AppIds] : n \in 0..MaxTasks}

\* How a lookup that runs get_game_name can end: with the name, with None,
\* or with an exception that future.result() raises again.
LookupOutcomes == {"name", "none", "raise"}

Finished(state) == state \in LookupOutcomes

\* The body of the loop over as_completed: a name is stored under the app
\* id of the future, None is skipped, an exception is logged.
CollectResult_reset(installed, app_id, outcome) ==
    IF outcome = "name"
    THEN [id \in DOMAIN installed \cup {app_id} |->
             IF id = app_id THEN GameName(app_id) ELSE installed[id]]
    ELSE <<>>

CollectResult(installed, app_id, outcome) ==
    IF outcome = "name"
    THEN [id \in DOMAIN installed \cup {app_id} |->
             IF id = app_id THEN GameName(app_id) ELSE installed[id]]
    ELSE installed

InitLookup ==
    /\ MainIdle
    /\ DedupeIdle
    /\ RetryIdle
    /\ l_pc = "submit"
    /\ l_manifest \in Manifests
    /\ l_submitted = 0
    /\ l_state = [i \in DOMAIN l_manifest |-> "new"]
    /\ l_cache = <<>>
    /\ l_order = <<>>
    /\ l_installed = <<>>

\* future = executor.submit(get_game_name, str(app_id)), for the next app id
Submit ==
    /\ l_pc = "submit"
    /\ l_submitted < Len(l_manifest)
    /\ l_submitted' = l_submitted + 1
    /\ l_state' = [l_state EXCEPT ![l_submitted + 1] = "queued"]
    /\ UNCHANGED <<l_pc, l_manifest, l_cache, l_order, l_installed>>
    /\ UNCHANGED <<main_vars, dedupe_vars, retry_vars>>

\* The end of the loops that submit: the loop over as_completed starts.
AwaitAll ==
    /\ l_pc = "submit"
    /\ l_submitted = Len(l_manifest)
    /\ l_pc' = "collect"
    /\ UNCHANGED <<l_manifest, l_submitted, l_state, l_cache, l_order,
                   l_installed>>
    /\ UNCHANGED <<main_vars, dedupe_vars, retry_vars>>

\* A worker of the pool takes a queued lookup: a result the cache holds for
\* the app id is the result at once, otherwise get_game_name runs.
StartLookup(i) ==
    /\ l_state[i] = "queued"
    /\ l_state' = [l_state EXCEPT ![i] =
                       IF l_manifest[i] \in DOMAIN l_cache
                       THEN l_cache[l_manifest[i]]
                       ELSE "running"]
    /\ UNCHANGED <<l_pc, l_manifest, l_submitted, l_cache, l_order,
                   l_installed>>
    /\ UNCHANGED <<main_vars, dedupe_vars, retry_vars>>

\* get_game_name ends in a worker; lru_cache keeps what it returned, not
\* what it raised.
FinishLookup(i) ==
    /\ l_state[i] = "running"
    /\ \E outcome \in LookupOutcomes :
          /\ l_state' = [l_state EXCEPT ![i] = outcome]
          /\ l_cache' = IF outcome = "raise"
                        THEN l_cache
                        ELSE [id \in DOMAIN l_cache \cup {l_manifest[i]} |->
                                 IF id = l_manifest[i] THEN outcome ELSE l_cache[id]]
    /\ UNCHANGED <<l_pc, l_manifest, l_submitted, l_order, l_installed>>
    /\ UNCHANGED <<main_vars, dedupe_vars, retry_vars>>

\* One round of the loop over as_completed, which hands out a finished
\* future that it has not handed out before.
Collect(i) ==
    /\ l_pc = "collect"
    /\ Finished(l_state[i])
    /\ \A k \in DOMAIN l_order : l_order[k] # i
    /\ l_order' = Append(l_order, i)
    /\ l_installed' = CollectResult(l_installed, l_manifest[i], l_state[i])
    /\ UNCHANGED <<l_pc, l_manifest, l_submitted, l_state, l_cache>>
    /\ UNCHANGED <<main_vars, dedupe_vars, retry_vars>>

\* as_completed has handed out every future: return installed_games
ReturnInstalled ==
    /\ l_pc = "collect"
    /\ Len(l_order) = Len(l_manifest)
    /\ l_pc' = "returned"
    /\ UNCHANGED <<l_manifest, l_submitted, l_state, l_cache, l_order,
                   l_installed>>
    /\ UNCHANGED <<main_vars, dedupe_vars, retry_vars>>

NextLookup ==
    \/ Submit
    \/ AwaitAll
    \/ \E i \in DOMAIN l_manifest : StartLookup(i)
    \/ \E i \in DOMAIN l_manifest : FinishLookup(i)
    \/ \E i \in DOMAIN l_manifest : Collect(i)
    \/ ReturnInstalled

SpecLookup == InitLookup /\ [][NextLookup]_vars

\* ---------------------------------------------------------------------
\* Vocabulary of the properties
\* ---------------------------------------------------------------------
\* The AppID a launch command yields; None for an entry that is not a
\* Steam entry.
AppIdOf(app) == extract_steam_app_id(Get(app, "cmd"))

IsSteamApp(app) == Truthy(AppIdOf(app))

\* The key of an entry that is not a Steam entry.
OtherKey(app) == <<Strip(Get(app, "name")), Strip(Get(app, "cmd"))>>

HasImage(app) == Truthy(Get(app, "image-path"))

Range(seq) == {seq[i] : i \in 1..Len(seq)}

\* The positions of the Steam entries of an AppID in a list.
SteamEntriesOf(apps, app_id) == {i \in 1..Len(apps) : AppIdOf(apps[i]) = app_id}

\* The entries apps.json held when the run read it: main writes the file
\* in its last step only.
LoadedApps == apps_file.apps

\* The first dedupe has run and nothing has changed its result yet.
Deduped == pc \in {"process_existing_apps", "add_new_games", "as_completed", "save"}

\* No two Steam entries of one AppID, no two other entries of one key.
DuplicateFree(apps) ==
    \A i, j \in 1..Len(apps) :
        i < j =>
            /\ IsSteamApp(apps[i]) /\ IsSteamApp(apps[j])
                   => AppIdOf(apps[i]) # AppIdOf(apps[j])
            /\ ~IsSteamApp(apps[i]) /\ ~IsSteamApp(apps[j])
                   => /\ OtherKey(apps[i]) # OtherKey(apps[j])
                      /\ <<Get(apps[i], "name"), Get(apps[i], "cmd")>>
                             # <<Get(apps[j], "name"), Get(apps[j], "cmd")>>

\* ---------------------------------------------------------------------
\* C1: the list dedupe_sunshine_apps keeps holds no two Steam entries with
\* the same AppID and no two other entries with the same (name, cmd) pair,
\* after the first dedupe and after the second one.
\* ---------------------------------------------------------------------
C1_DedupeLeavesNoDuplicates ==
    /\ Deduped => DuplicateFree(sunshine_apps)
    /\ pc = "restart_sunshine" => DuplicateFree(updated_apps)

\* The first dedupe has kept a Steam entry and another entry, and has
\* removed an entry with the key of the latter.
C1_Witness ==
    /\ pc = "process_existing_apps"
    /\ \E a, b \in Range(sunshine_apps), c \in Range(removed_dupes) :
          /\ IsSteamApp(a)
          /\ ~IsSteamApp(b) /\ ~IsSteamApp(c)
          /\ OtherKey(b) = OtherKey(c) /\ b # c

\* ---------------------------------------------------------------------
\* C5: dedupe_sunshine_apps is idempotent: applied to the list it kept, it
\* returns that list, in the same order, and removes nothing.
\* ---------------------------------------------------------------------
C5_DedupeIdempotent ==
    /\ Deduped => dedupe_sunshine_apps(sunshine_apps) = <<sunshine_apps, <<>>>>
    /\ pc = "restart_sunshine"
           => dedupe_sunshine_apps(updated_apps) = <<updated_apps, <<>>>>

\* The first dedupe has replaced a kept entry by a later one of the same
\* AppID and has kept two entries.
C5_Witness ==
    /\ pc = "process_existing_apps"
    /\ Len(sunshine_apps) = 2
    /\ \E i, j \in 1..Len(LoadedApps) :
          /\ i < j
          /\ LoadedApps[i] \in Range(removed_dupes)
          /\ LoadedApps[j] \in Range(sunshine_apps)
          /\ AppIdOf(LoadedApps[i]) = AppIdOf(LoadedApps[j])
          /\ IsSteamApp(LoadedApps[i])

\* ---------------------------------------------------------------------
\* C7: of two Steam entries with the same AppID, one with a non-empty
\* image path and one without, dedupe_sunshine_apps keeps the one with the
\* image path and removes the other, in both input orders and whatever the
\* names of the two are.
\* ---------------------------------------------------------------------
C7_ImageWinsDuplicate ==
    pc = "process_existing_apps" =>
        \A i, j \in 1..Len(LoadedApps) :
            LET a == LoadedApps[i]
                b == LoadedApps[j]
            IN  /\ i # j
                /\ IsSteamApp(a) /\ AppIdOf(a) = AppIdOf(b)
                /\ HasImage(a) /\ ~HasImage(b)
                /\ \A k \in 1..Len(LoadedApps) :
                      AppIdOf(LoadedApps[k]) = AppIdOf(a) => k \in {i, j}
                => /\ a \in Range(sunshine_apps)
                   /\ b \notin Range(sunshine_apps)
                   /\ b \in Range(removed_dupes)
                   /\ a \notin Range(removed_dupes)

\* The entry without image path comes first and has a name, the entry with
\* the image path comes second and has none.
C7_Witness ==
    /\ pc = "process_existing_apps"
    /\ Len(LoadedApps) = 2
    /\ AppIdOf(LoadedApps[1]) = AppIdOf(LoadedApps[2])
    /\ IsSteamApp(LoadedApps[1])
    /\ ~HasImage(LoadedApps[1]) /\ Truthy(Get(LoadedApps[1], "name"))
    /\ HasImage(LoadedApps[2]) /\ ~Truthy(Get(LoadedApps[2], "name"))
    /\ sunshine_apps = <<LoadedApps[2]>>
    /\ removed_dupes = <<LoadedApps[1]>>

\* A step of main that runs process_existing_apps and computes new_games:
\* it starts at "process_existing_apps" and is not the interrupt.
Reconciles == pc = "process_existing_apps" /\ ~(pc' = "exited" /\ exit_status' = 1)

\* The (name, AppID) pairs of a list of entries, in order.
RemovedPairs(apps) ==
    [i \in 1..Len(apps) |-> <<GetDefault(apps[i], "name", <<"Unknown">>), AppIdOf(apps[i])>>]

\* ---------------------------------------------------------------------
\* C3: process_existing_apps keeps every entry that is not a Steam entry,
\* keeps a Steam entry exactly when its AppID is a key of installed_games
\* (the AppID is then in existing_steam_apps), and records every other
\* Steam entry in removed_games with its name (or "Unknown" when it has no
\* name key) and AppID.  Kept entries keep their order; every Steam entry
\* that is kept is the entry of an installed game.
\* ---------------------------------------------------------------------
C3_ReconcilePartitions ==
    [][Reconciles =>
        LET installed == DOMAIN installed_games
            Kept(app) == ~IsSteamApp(app) \/ AppIdOf(app) \in installed
            Dropped(app) == IsSteamApp(app) /\ AppIdOf(app) \notin installed
        IN  /\ updated_apps' = SelectSeq(sunshine_apps, Kept)
            /\ removed_games' = RemovedPairs(SelectSeq(sunshine_apps, Dropped))
            /\ existing_steam_apps' =
                   {AppIdOf(app) : app \in {a \in Range(sunshine_apps) : IsSteamApp(a)}}
                       \cap installed
            /\ \A app \in Range(updated_apps') :
                   IsSteamApp(app) => /\ AppIdOf(app) \in installed
                                      /\ AppIdOf(app) \in existing_steam_apps'
       ]_vars

\* process_existing_apps has kept a Steam entry and another entry and has
\* dropped a Steam entry.
C3_Witness ==
    /\ pc = "add_new_games"
    /\ Len(removed_games) = 1
    /\ Len(updated_apps) = 2
    /\ \E a, b \in Range(updated_apps) : IsSteamApp(a) /\ ~IsSteamApp(b)

\* ---------------------------------------------------------------------
\* C4: new_games is the set of keys of installed_games without
\* existing_steam_apps: exactly the installed AppIDs that no entry of the
\* list refers to, and none that a kept Steam entry refers to.
\* ---------------------------------------------------------------------
C4_AddSetIsDifference ==
    [][Reconciles =>
        /\ new_games' = DOMAIN installed_games \ existing_steam_apps'
        /\ new_games' =
               {app_id \in DOMAIN installed_games :
                    \A app \in Range(sunshine_apps) : AppIdOf(app) # app_id}
        /\ \A app \in Range(updated_apps') : AppIdOf(app) \notin new_games'
       ]_vars

\* Both AppIDs are installed, the list has a Steam entry of AppID 1 only:
\* the add-set is {2}.
C4_Witness ==
    /\ pc = "add_new_games"
    /\ DOMAIN installed_games = AppIds
    /\ existing_steam_apps = {<<"1">>}
    /\ new_games = {<<"2">>}

\* ---------------------------------------------------------------------
\* C6: process_existing_apps is idempotent: run again on the list it kept,
\* with the same installed_games, it removes no game and keeps the list as
\* it is.
\* ---------------------------------------------------------------------
C6_ReconcileIdempotent ==
    [][Reconciles =>
        LET again == process_existing_apps(updated_apps', DOMAIN installed_games)
        IN  /\ again.removed_games = <<>>
            /\ again.updated_apps = updated_apps'
       ]_vars

\* The first run of process_existing_apps has dropped an entry and kept two.
C6_Witness ==
    /\ pc = "add_new_games"
    /\ removed_games # <<>>
    /\ Len(updated_apps) = 2
    /\ existing_steam_apps # {}

\* What main found has to change, as it stands in its variables.
ChangesFound == removed_dupes # <<>> \/ removed_games # <<>> \/ new_games # {}

\* main has returned; only the return after process_existing_apps and the
\* one at the end of main leave the process with status 0.
Returned == pc = "exited" /\ exit_status = 0

\* ---------------------------------------------------------------------
\* C8: when there are no removed duplicates, no removed games and no new
\* games, main returns right after computing them: apps.json and its
\* backup are not written, no image is fetched, Sunshine is not restarted,
\* and the exit status is 0.
\* ---------------------------------------------------------------------
C8_NoChangesStopsRun ==
    /\ pc \in {"add_new_games", "as_completed", "save", "restart_sunshine"}
           => ChangesFound
    /\ Returned /\ ~ChangesFound
           => /\ saves = 0
              /\ backup_file = Absent
              /\ apps_file.state # "partial"
              /\ fetches = {}
              /\ new_apps = <<>>
              /\ ~sunshine_restarted

\* A run on Windows with restarts enabled, a Steam entry of an installed
\* game and nothing to change has returned.
C8_Witness ==
    /\ Returned /\ ~ChangesFound
    /\ ~dry_run /\ ~no_restart /\ os_name = "nt"
    /\ existing_steam_apps # {}
    /\ Len(updated_apps) = 2

\* ---------------------------------------------------------------------
\* C9: a dry run never writes apps.json or its backup and never restarts
\* Sunshine, whether or not changes are needed: it never gets past the
\* early returns of main.
\* ---------------------------------------------------------------------
C9_DryRunWritesNothing ==
    dry_run =>
        /\ pc \notin {"add_new_games", "as_completed", "save", "restart_sunshine"}
        /\ saves = 0
        /\ backup_file = Absent
        /\ apps_file.state # "partial"
        /\ fetches = {}
        /\ ~sunshine_restarted

\* A dry run that found duplicates, a game to remove and a game to add has
\* returned.
C9_Witness ==
    /\ dry_run /\ Returned
    /\ removed_dupes # <<>> /\ removed_games # <<>> /\ new_games # {}
    /\ ~no_restart /\ os_name = "nt"

\* ---------------------------------------------------------------------
\* C10: a dry run makes no changes; in particular it removes no image
\* file, also when process_existing_apps finds Steam entries of uninstalled
\* games whose image file exists.
\* ---------------------------------------------------------------------
C10_DryRunKeepsImages == [][dry_run => grid_files' = grid_files]_vars

\* ---------------------------------------------------------------------
\* C2: after a run that is not a dry run and ends with exit status 0,
\* apps.json holds exactly one Steam entry for every key of
\* installed_games and no Steam entry of any other AppID.
\* ---------------------------------------------------------------------
C2_OneEntryPerInstalledGame ==
    Returned /\ ~dry_run =>
        /\ \A app_id \in DOMAIN installed_games :
               Cardinality(SteamEntriesOf(apps_file.apps, app_id)) = 1
        /\ \A app \in Range(apps_file.apps) :
               IsSteamApp(app) => AppIdOf(app) \in DOMAIN installed_games

\* Two entries dedupe_sunshine_apps takes for the same thing.
SameIdentity(a, b) ==
    IF IsSteamApp(a) THEN IsSteamApp(b) /\ AppIdOf(a) = AppIdOf(b)
    ELSE ~IsSteamApp(b) /\ OtherKey(a) = OtherKey(b)

\* The positions of apps with the identity of apps[i].
Occurrences(apps, i) == {j \in 1..Len(apps) : SameIdentity(apps[j], apps[i])}

\* The positions of apps that hold the first entry of an identity, and the
\* others.
FirstPositions(apps) == {i \in 1..Len(apps) : \A j \in Occurrences(apps, i) : i <= j}

LaterPositions(apps) == (1..Len(apps)) \ FirstPositions(apps)

\* The number of positions of P up to i.
Rank(P, i) == Cardinality({j \in P : j <= i})

\* The earliest position among P whose entry has the highest score in P.
EarliestBest(apps, P) ==
    CHOOSE i \in P :
        /\ \A j \in P : _score_app_for_keep(apps[j]) <= _score_app_for_keep(apps[i])
        /\ \A j \in P : _score_app_for_keep(apps[j]) = _score_app_for_keep(apps[i])
                            => i <= j

\* ---------------------------------------------------------------------
\* C18: for every AppID, the Steam entry dedupe_sunshine_apps keeps is the
\* earliest entry of the input among those of that AppID with the highest
\* score: a later entry replaces the kept one only with a strictly higher
\* score, and of two entries with the same score the earlier one stays.
\* ---------------------------------------------------------------------
C18_EarliestBestIsKept ==
    d_pc = "returned" =>
        \A i \in 1..Len(d_apps) :
            IsSteamApp(d_apps[i]) =>
                LET best == d_apps[EarliestBest(d_apps, Occurrences(d_apps, i))]
                IN  /\ best \in Range(d_deduped)
                    /\ \A k \in 1..Len(d_deduped) :
                           SameIdentity(d_deduped[k], d_apps[i]) => d_deduped[k] = best

\* A lower entry, then two different entries of the same AppID that tie on
\* the highest score: the first of the two is kept.
C18_Witness ==
    /\ d_pc = "returned"
    /\ Len(d_apps) = 3
    /\ IsSteamApp(d_apps[1])
    /\ Occurrences(d_apps, 1) = {1, 2, 3}
    /\ _score_app_for_keep(d_apps[1]) < _score_app_for_keep(d_apps[2])
    /\ _score_app_for_keep(d_apps[2]) = _score_app_for_keep(d_apps[3])
    /\ d_apps[2] # d_apps[3]
    /\ d_deduped = <<d_apps[2]>>

\* ---------------------------------------------------------------------
\* C19: in the list dedupe_sunshine_apps keeps, every identity stands at
\* the position its first occurrence was given: the identities appear in
\* the order of their first occurrence in the input, also when a later
\* entry has replaced the kept one (it is put in its place, not appended).
\* ---------------------------------------------------------------------
C19_KeptInFirstOccurrenceOrder ==
    d_pc = "returned" =>
        LET first == FirstPositions(d_apps)
        IN  /\ Len(d_deduped) = Cardinality(first)
            /\ \A i \in first : SameIdentity(d_deduped[Rank(first, i)], d_apps[i])

\* Scenario 1: a Steam entry without image, one of the same AppID with an
\* image, then another entry; the second and the third are kept, in that
\* order, the first is removed.
C19_Witness ==
    /\ d_pc = "returned"
    /\ Len(d_apps) = 3
    /\ IsSteamApp(d_apps[1]) /\ ~HasImage(d_apps[1])
    /\ SameIdentity(d_apps[1], d_apps[2]) /\ HasImage(d_apps[2])
    /\ ~IsSteamApp(d_apps[3])
    /\ d_deduped = <<d_apps[2], d_apps[3]>>
    /\ d_removed = <<d_apps[1]>>

\* sub can be had from seq by leaving entries out.
RECURSIVE IsSubsequence(_, _)
IsSubsequence(sub, seq) ==
    IF sub = <<>> THEN TRUE
    ELSE IF seq = <<>> THEN FALSE
    ELSE IF Head(sub) = Head(seq) THEN IsSubsequence(Tail(sub), Tail(seq))
    ELSE IsSubsequence(sub, Tail(seq))

\* The entry the loop of dedupe_sunshine_apps removes when it comes to
\* position j, which is not the first of its identity: the entry at j,
\* unless that is a Steam entry that scores higher than the entry kept so
\* far, which is removed then.
RemovedAt(apps, j) ==
    LET before == {i \in Occurrences(apps, j) : i < j}
        current == apps[EarliestBest(apps, before)]
    IN  IF /\ IsSteamApp(apps[j])
           /\ _score_app_for_keep(apps[j]) > _score_app_for_keep(current)
        THEN current
        ELSE apps[j]

\* ---------------------------------------------------------------------
\* C20, as claimed: the removed list of dedupe_sunshine_apps keeps the
\* order of the input: of two removed entries, the one that comes earlier
\* in the input comes earlier in removed, also when a kept entry is
\* displaced by a later one with a higher score.
\* ---------------------------------------------------------------------
C20_RemovedInInputOrder == d_pc = "returned" => IsSubsequence(d_removed, d_apps)

\* ---------------------------------------------------------------------
\* C20, as amended: the removed list of dedupe_sunshine_apps is in the
\* order of the removals: it holds one entry for every input entry that is
\* not the first of its identity, in the input order of those entries; the
\* entry is that entry itself, or, when that entry scores higher than the
\* entry kept so far, the entry it displaces.
\* ---------------------------------------------------------------------
C20_RemovedInRemovalOrder ==
    d_pc = "returned" =>
        LET later == LaterPositions(d_apps)
        IN  /\ Len(d_removed) = Cardinality(later)
            /\ \A j \in later : d_removed[Rank(later, j)] = RemovedAt(d_apps, j)

\* An entry is removed on arrival and the entry kept before it is displaced
\* afterwards: the displaced entry, first in the input, is last in removed.
C20_Witness ==
    /\ d_pc = "returned"
    /\ Len(d_apps) = 3
    /\ IsSteamApp(d_apps[1])
    /\ Occurrences(d_apps, 1) = {1, 2, 3}
    /\ d_apps[1] # d_apps[2]
    /\ d_removed = <<d_apps[2], d_apps[1]>>
    /\ d_deduped = <<d_apps[3]>>

\* ---------------------------------------------------------------------
\* C13: when save_sunshine_config fails, the exception reaches the handler
\* of main: Sunshine is not restarted and the exit status is 1.  Sunshine
\* is restarted only after a save that succeeded: main gets to
\* restart_sunshine only with apps.json holding the new list.
\* ---------------------------------------------------------------------
C13_FailedSaveAbortsRun ==
    [][/\ pc = "save" /\ pc' # "restart_sunshine"
           => pc' = "exited" /\ exit_status' = 1 /\ ~sunshine_restarted'
       /\ pc' = "restart_sunshine"
           => apps_file' = Complete(updated_apps') /\ saves' = 1
       /\ sunshine_restarted' /\ ~sunshine_restarted
           => /\ pc = "restart_sunshine"
              /\ apps_file = Complete(updated_apps) /\ saves = 1
      ]_vars

\* On Windows with restarts enabled a save has failed while writing: the
\* run has ended with status 1, Sunshine has not been restarted.
C13_Witness ==
    /\ pc = "exited" /\ exit_status = 1
    /\ apps_file.state = "partial"
    /\ ~no_restart /\ os_name = "nt"
    /\ ~sunshine_restarted

\* ---------------------------------------------------------------------
\* C14: a run writes apps.json at most once, and only in its last step
\* but one: after the first dedupe, process_existing_apps, the completion
\* of every fetch that add_new_games submitted, and the second dedupe,
\* whose result is what it writes.
\* ---------------------------------------------------------------------
C14_SingleWriteAtTheEnd ==
    [][apps_file' # apps_file \/ backup_file' # backup_file \/ saves' # saves
           => /\ pc = "save"
              /\ saves = 0 /\ saves' <= 1
              /\ pending = {}
              /\ fetches = new_games
              /\ updated_apps = process_existing_apps(
                                    sunshine_apps, DOMAIN installed_games).updated_apps
              /\ dedupe_sunshine_apps(LoadedApps) = <<sunshine_apps, removed_dupes>>
              /\ LET r == dedupe_sunshine_apps(updated_apps \o new_apps)
                 IN  /\ removed_after' = r[2]
                     /\ apps_file' \in {Complete(r[1]), Partial, apps_file}
      ]_vars

\* The list had duplicates, fetches for two new games have completed and
\* the list has been written.
C14_Witness ==
    /\ pc = "restart_sunshine"
    /\ saves = 1
    /\ removed_dupes # <<>>
    /\ fetches = AppIds
    /\ Len(new_apps) = 2

\* ---------------------------------------------------------------------
\* C15: apps.json is written atomically, with a backup of the previous
\* version: after a save, whether it succeeded or failed part-way, the file
\* holds the complete previous list or the complete new one, never an empty
\* or partial one, and when a file that was there before has been opened
\* for writing, the backup holds its previous content.
\* ---------------------------------------------------------------------
C15_AtomicSaveWithBackup ==
    [][DedupeAndSave
           => /\ apps_file' \in {apps_file, Complete(updated_apps')}
              /\ saves' > saves /\ apps_file.state # "absent"
                     => backup_file' = apps_file
      ]_vars

\* ---------------------------------------------------------------------
\* C16: when add_new_games has returned, new_apps holds a Steam entry for
\* every AppID of new_games, also for those whose image fetch gave no
\* image: their entry has the image path "".
\* ---------------------------------------------------------------------
C16_EveryNewGameIsAdded ==
    pc = "save" =>
        \A app_id \in new_games :
            GridPath(app_id) \notin grid_files =>
                /\ Cardinality(SteamEntriesOf(new_apps, app_id)) = 1
                /\ \A i \in SteamEntriesOf(new_apps, app_id) :
                       Get(new_apps[i], "image-path") = <<>>

\* The positions of r_log that are attempts, and those that are waits.
AttemptPositions == {i \in 1..Len(r_log) : r_log[i][1] # "sleep"}

SleepPositions == {i \in 1..Len(r_log) : r_log[i][1] = "sleep"}

Transient == {"timeout", "request_error", "image_timeout", "image_request_error"}

Malformed == {"bad_json", "bad_image"}

\* ---------------------------------------------------------------------
\* C11: a name lookup or image fetch whose attempts fail with a timeout or
\* another request error is attempted at most 3 times; it waits 1 second
\* after the first attempt and 2 after the second, between attempts only
\* (never before the first or after the last), and after the third failure
\* it returns None.
\* ---------------------------------------------------------------------
C11_ThreeAttemptsWithBackoff ==
    r_pc # "idle" =>
        /\ Cardinality(AttemptPositions) <= 3
        /\ \A i \in SleepPositions :
               /\ i > 1 /\ r_log[i - 1][1] # "sleep"
               /\ r_log[i][2] = Pow2(r_log[i - 1][2] - 1)
               /\ i < Len(r_log) \/ r_pc = "request"
        /\ \A i \in AttemptPositions : i > 1 => r_log[i - 1][1] = "sleep"
        /\ r_pc = "returned" => r_result \in {"None", "value"}
        /\ (r_pc = "returned"
               /\ (\A i \in AttemptPositions : r_log[i][1] \in Transient))
               => /\ r_result = "None"
                  /\ Len(r_log) = 5
                  /\ r_log[2] = <<"sleep", 1>> /\ r_log[4] = <<"sleep", 2>>

\* Three attempts have failed with a timeout or a request error and the
\* call has returned None.
C11_Witness ==
    /\ r_pc = "returned"
    /\ r_result = "None"
    /\ Cardinality(AttemptPositions) = 3
    /\ \A i \in AttemptPositions : r_log[i][1] \in Transient
    /\ \E i \in AttemptPositions : r_log[i][1] = "timeout"

\* ---------------------------------------------------------------------
\* C12: a response body that is not JSON, or image bytes that do not
\* verify, are never retried: the attempt that meets them is the last one
\* and the call returns None at once.
\* ---------------------------------------------------------------------
C12_MalformedIsNotRetried ==
    \A i \in 1..Len(r_log) :
        r_log[i][1] \in Malformed =>
            /\ i = Len(r_log)
            /\ r_pc = "returned"
            /\ r_result = "None"

\* ---------------------------------------------------------------------
\* C17: whatever the order in which the name lookups run, end and are
\* handed out, load_installed_games returns the same map: it holds exactly
\* the app ids of the manifest a lookup of which gave a name, each with
\* that name; a lookup that gives None or raises leaves the entries of the
\* others alone and the loop goes on to the last lookup.
\* ---------------------------------------------------------------------
NamedIds == {l_manifest[i] : i \in {k \in DOMAIN l_manifest : l_state[k] = "name"}}

C17_LookupOrderIrrelevant ==
    l_pc = "returned" =>
        /\ \A i \in DOMAIN l_manifest : Finished(l_state[i])
        /\ Range(l_order) = DOMAIN l_manifest
        /\ DOMAIN l_installed = NamedIds
        /\ \A id \in NamedIds : l_installed[id] = GameName(id)

\* A name was stored, then lookups of another app id that raised and that
\* gave None were handed out, and the order was not that of submission.
C17_Witness ==
    /\ l_pc = "returned"
    /\ \E a, b, c \in DOMAIN l_order :
          /\ a < b /\ a < c
          /\ l_state[l_order[a]] = "name"
          /\ l_state[l_order[b]] = "raise"
          /\ l_state[l_order[c]] = "none"
          /\ l_manifest[l_order[b]] # l_manifest[l_order[a]]
          /\ l_order[a] > l_order[b]
    /\ DOMAIN l_installed # {}

\* The number of positions of seq that hold e.
Count(e, seq) == Cardinality({i \in 1..Len(seq) : seq[i] = e})

\* ---------------------------------------------------------------------
\* C22: dedupe_sunshine_apps neither loses nor invents an entry: deduped
\* followed by removed is a permutation of apps, every entry comes as
\* often in the two lists together as in apps, and the lengths add up.
\* ---------------------------------------------------------------------
C22_DedupePartitionsInput ==
    d_pc = "returned" =>
        /\ Len(d_deduped) + Len(d_removed) = Len(d_apps)
        /\ \A e \in Range(d_apps) \cup Range(d_deduped) \cup Range(d_removed) :
               Count(e, d_deduped) + Count(e, d_removed) = Count(e, d_apps)

\* The first entry of the list was kept and later replaced by a better
\* one, and the list holds one entry twice, once kept and once removed.
C22_Witness ==
    /\ d_pc = "returned"
    /\ Len(d_removed) >= 2
    /\ d_removed[1] = d_apps[1]
    /\ \E i, j \in 1..Len(d_apps) :
          /\ i < j /\ d_apps[i] = d_apps[j]
          /\ Count(d_apps[i], d_deduped) = 1
          /\ Count(d_apps[i], d_removed) = 1

\* The AppIDs of the Steam entries of a list.
SteamIdsOf(apps) == {AppIdOf(app) : app \in {a \in Range(apps) : IsSteamApp(a)}}

\* ---------------------------------------------------------------------
\* C21: the second dedupe_sunshine_apps of main removes nothing.  When a
\* run comes to it, updated_apps extended by new_apps has no duplicates:
\* every new entry is a Steam entry, no two new entries have one AppID,
\* and no new entry has the AppID of a Steam entry that was kept.  So
\* removed_after is empty in every run.
\* ---------------------------------------------------------------------
C21_SafetyNetRemovesNothing ==
    /\ removed_after = <<>>
    /\ pc = "save" =>
          LET all == updated_apps \o new_apps
          IN  /\ DuplicateFree(all)
              /\ dedupe_sunshine_apps(all) = <<all, <<>> >>
              /\ \A app \in Range(new_apps) : IsSteamApp(app)
              /\ Cardinality(SteamIdsOf(new_apps)) = Len(new_apps)
              /\ SteamIdsOf(new_apps) \cap SteamIdsOf(updated_apps) = {}
              /\ SteamIdsOf(new_apps) \subseteq new_games
              /\ new_games \cap existing_steam_apps = {}

\* The second dedupe has run on a list of a kept Steam entry, another kept
\* entry and a new entry, after the first dedupe and the reconciliation
\* had both removed something, and the list was saved.
C21_Witness ==
    /\ pc = "restart_sunshine"
    /\ saves = 1
    /\ new_apps # <<>>
    /\ existing_steam_apps # {}
    /\ Len(updated_apps) = Len(new_apps) + 2
    /\ \E app \in Range(updated_apps) : ~IsSteamApp(app)
    /\ removed_dupes # <<>>

\* The app ids the manifest lists whose name lookup came to None.
AbsentIds == manifest \ DOMAIN installed_games

\* The image files of the Steam entries of app_id that process_existing_apps
\* finds in the list and on disk.
ImagesOf(app_id) ==
    {Get(sunshine_apps[i], "image-path") : i \in SteamEntriesOf(sunshine_apps, app_id)}
        \cap grid_files

\* In a run that is not a dry run, process_existing_apps records the entry
\* of every such app id in removed_games and keeps none in updated_apps.
AbsentIsDropped ==
    Reconciles /\ ~dry_run =>
        \A app_id \in AbsentIds :
            /\ SteamEntriesOf(updated_apps', app_id) = {}
            /\ SteamEntriesOf(sunshine_apps, app_id) # {}
                   => \E i \in 1..Len(removed_games') : removed_games'[i][2] = app_id
            /\ app_id \notin new_games'

\* When such a run has returned, apps.json holds no entry of the app id
\* and no image was fetched for it.
AbsentIsNotPersisted ==
    Returned' /\ ~dry_run =>
        \A app_id \in AbsentIds :
            /\ apps_file'.state # "partial"
            /\ SteamEntriesOf(apps_file'.apps, app_id) = {}
            /\ app_id \notin fetches'
            /\ GridPath(app_id) \notin grid_files'

\* ---------------------------------------------------------------------
\* C23, as stated: a game the manifest lists whose name lookup came to
\* None is treated as a game that is not installed: in a run that is not a
\* dry run its entry is dropped and is not in the apps.json the run saves,
\* no new entry is added for it, and the image file of its entry is
\* deleted.
\* ---------------------------------------------------------------------
C23_AbsentLookupDeletesImage ==
    [][/\ AbsentIsDropped
       /\ AbsentIsNotPersisted
       /\ Reconciles /\ ~dry_run =>
              \A app_id \in AbsentIds : ImagesOf(app_id) \cap grid_files' = {}
      ]_vars

\* ---------------------------------------------------------------------
\* C23, amended: the same, but the image file of the entry is deleted
\* unless os.remove raises, which is logged and changes nothing else: the
\* entry is dropped all the same and the run goes on.
\* ---------------------------------------------------------------------
C23_AbsentLookupRemovesEntry ==
    [][/\ AbsentIsDropped
       /\ AbsentIsNotPersisted
       /\ Reconciles /\ ~dry_run =>
              \A app_id \in AbsentIds :
                  ImagesOf(app_id) \cap grid_files' \subseteq remove_failed'
      ]_vars

\* A run that is not a dry run has returned after saving: the manifest
\* lists a game without a name whose entry, with an image on disk, was in
\* apps.json (it is in the backup) and is not any more, the image is gone,
\* and a game with a name got a new entry.
C23_Witness ==
    /\ Returned /\ ~dry_run /\ saves = 1
    /\ new_apps # <<>>
    /\ remove_failed = {}
    /\ backup_file.state = "complete"
    /\ \E app_id \in AbsentIds :
          /\ \E i \in SteamEntriesOf(backup_file.apps, app_id) :
                 /\ HasImage(backup_file.apps[i])
                 /\ Get(backup_file.apps[i], "image-path") \notin grid_files
          /\ SteamEntriesOf(apps_file.apps, app_id) = {}
          /\ \E i \in 1..Len(removed_games) : removed_games[i][2] = app_id

====
